---------------------------- MODULE Spec2Model ----------------------------
(* A model of the S3 command-line tool: src/awscli/aws_s3.py (the storage  *)
(* operations) and src/awscli/main.py (the command layer).                 *)
(*                                                                         *)
(* The tool is single-threaded; each operation is modelled as its own      *)
(* state machine, one action per statement that talks to the backend or    *)
(* to the local file system.  Every such call may raise: a ClientError     *)
(* (the backend rejected the call), or another exception (OSError for      *)
(* local files, OtherError for a non-ClientError raised by the SDK).       *)
EXTENDS Integers, Sequences, FiniteSets, TLC

(***************************************************************************)
(* Bounds of the model.                                                    *)
(***************************************************************************)
MaxFileLen == 3
MaxPartSize == 2
MaxByte == 1
MaxKeyLen == 3
MaxRuns == 2
MaxVersions == 3
MaxCalls == 6

(***************************************************************************)
(* State.                                                                  *)
(***************************************************************************)
\* multipart_upload
VARIABLES
    file,            \* the bytes of the local file `filename`
    part_size,       \* the part_size argument
    mpuPc,           \* position in multipart_upload
    fpos,            \* read position of the open file f
    data,            \* the chunk last read
    parts,           \* the recorded parts list
    part_number,     \* the next part number
    uploaded_bytes,  \* running byte count
    eof,             \* the read loop has seen an empty read
    s3Parts,         \* backend: the upload_part calls received, in order
    completeCalls,   \* the Parts argument of every complete_multipart_upload call
    s3Object,        \* backend: the object assembled by a successful complete
    mpuCalls,        \* the backend calls issued so far, in order
    mpuResult,       \* what the caller got: none | result | False | raised
    mpuFault         \* the exception raised inside multipart_upload, if any

mpuVars == <<file, part_size, mpuPc, fpos, data, parts, part_number,
             uploaded_bytes, eof, s3Parts, completeCalls, s3Object, mpuCalls,
             mpuResult, mpuFault>>

\* organize_by_extension
VARIABLES
    bucket,          \* backend: key -> stored body
    prefix,          \* the prefix argument
    orgPc,           \* position in organize_by_extension
    Contents,        \* response['Contents']: the listed keys
    orgIdx,          \* index of the loop's current obj in Contents
    orgStep,         \* index into MoveSteps of the next call for this obj
    counts,          \* the counts dict
    srcBody,         \* the body under the source key when its move began
    orgCopied,       \* keys whose copy_object succeeded in this run
    orgDeleteCalls,  \* keys for which delete_object was issued in this run
    orgMoves,        \* the copies made: source key and destination key
    reported,        \* the summary printed by this run
    orgRun,          \* which invocation this is
    snapBucket,      \* the bucket at the end of the previous run
    snapReported,    \* the summary printed by the previous run
    orgResult,       \* what the caller got: none | None | raised
    orgFault         \* the exception raised inside organize_by_extension

orgVars == <<bucket, prefix, orgPc, Contents, orgIdx, orgStep, counts, srcBody,
             orgCopied, orgDeleteCalls, orgMoves, reported, orgRun,
             snapBucket, snapReported, orgResult, orgFault>>

\* download_file_and_upload_to_s3
VARIABLES
    urlContent,      \* what the URL serves
    file_name,       \* the file_name argument (the destination key)
    keep_local,      \* the keep_local argument
    dlPc,            \* position in download_file_and_upload_to_s3
    content,         \* the downloaded bytes
    mime_type,       \* the type sniffed from content
    dlUploadCalls,   \* number of upload_fileobj calls issued
    dlStored,        \* backend: the objects stored by upload_fileobj
    dlLocalCopy,     \* a local copy of the download was written
    dlResult,        \* what the caller got: none | False | url | raised
    dlFault          \* the exception raised inside the function, if any

dlVars == <<urlContent, file_name, keep_local, dlPc, content, mime_type,
            dlUploadCalls, dlStored, dlLocalCopy, dlResult, dlFault>>

\* restore_previous_version and delete_old_versions
VARIABLES
    versions,        \* backend: the version records of the bucket
    versions0,       \* the version records when the operation began
    verOp,           \* the operation run: restore | delete_old
    months,          \* the months argument of delete_old_versions
    verPc,           \* position in the operation
    listed,          \* the Versions list the listing returned
    verIdx,          \* index of the loop's current version in listed
    deleted,         \* the deleted list of delete_old_versions
    verContent,      \* the bytes read by restore_previous_version
    verReads,        \* the get_object calls issued: Key and VersionId
    verWrites,       \* number of put_object calls issued
    verDeleteCalls,  \* the delete_object calls issued: Key and VersionId
    verResult,       \* what the caller got: none | True | False | list | raised
    verReturned,     \* the list delete_old_versions returned
    verFault         \* the exception raised inside the operation, if any

verVars == <<versions, versions0, verOp, months, verPc, listed, verIdx,
             deleted, verContent, verReads, verWrites, verDeleteCalls,
             verResult, verReturned, verFault>>

\* The command layer (main.py) and init_client
VARIABLES
    cmd,             \* the command invoked
    cliPc,           \* position in the command: init | body | done
    client,          \* what init_client returned: unset | handle | None
    initFault,       \* the exception raised inside init_client, if any
    cliOps,          \* the storage operations invoked on the client
    cliEcho,         \* the lines the command printed with typer.echo
    cliExit          \* how the command ended: none | returned | exit | raised

cliVars == <<cmd, cliPc, client, initFault, cliOps, cliEcho, cliExit>>

\* A session of bucket and object operations on one bucket
VARIABLES
    s3Bucket,        \* the bucket: exists, versioned, public
    s3Objects,       \* per key, its versions and delete markers, newest first
    localFiles,      \* the local files: path -> content
    opsCount,        \* the number of operations called so far
    lastCall,        \* the last operation called, its arguments and outcome
    scenario         \* how many steps of the end-to-end scenario the last
                     \* calls have followed

opsVars == <<s3Bucket, s3Objects, localFiles, opsCount, lastCall, scenario>>

vars == <<mpuVars, orgVars, dlVars, verVars, cliVars, opsVars>>

\* What the steps of one operation leave alone: the other operations' state.
mpuOthers == <<orgVars, dlVars, verVars, cliVars, opsVars>>
orgOthers == <<mpuVars, dlVars, verVars, cliVars, opsVars>>
dlOthers == <<mpuVars, orgVars, verVars, cliVars, opsVars>>
verOthers == <<mpuVars, orgVars, dlVars, cliVars, opsVars>>
cliOthers == <<mpuVars, orgVars, dlVars, verVars, opsVars>>
opsOthers == <<mpuVars, orgVars, dlVars, verVars, cliVars>>

(***************************************************************************)
(* Exceptions.                                                             *)
(***************************************************************************)
NoFault == [at |-> "none", exc |-> "none"]
Fault(site, e) == [at |-> site, exc |-> e]

\* What a backend call can raise: botocore's ClientError, or anything else
\* the SDK raises (EndpointConnectionError, ParamValidationError, ...).
BackendExc == {"ClientError", "OtherError"}
\* What a local file operation can raise.
LocalExc == {"OSError"}

(***************************************************************************)
(* Small helpers.                                                          *)
(***************************************************************************)
Min(a, b) == IF a <= b THEN a ELSE b

\* ceil(s / p) for p > 0
CeilDiv(s, p) == (s + p - 1) \div p

Bytes == 0..MaxByte
Files == UNION {[1..n -> Bytes] : n \in 0..MaxFileLen}
ETags == {"e1", "e2"}

(***************************************************************************)
(* multipart_upload (aws_s3.py 220-265)                                    *)
(***************************************************************************)
\* A read that loses the byte before the end of the file (off by one).
ReadChunkShort(f, pos, n) == SubSeq(f, pos + 1, Min(pos + n, Len(f) - 1))

\* f.read(n) on a regular file opened "rb": the next n bytes, fewer only at
\* the end of the file, empty at the end of the file.
ReadChunk(f, pos, n) == SubSeq(f, pos + 1, Min(pos + n, Len(f)))

\* A part recorded under the number of the part after it.
PartRecordOffByOne(n, tag) == [PartNumber |-> n + 1, ETag |-> tag]

\* parts.append({"PartNumber": part_number, "ETag": part["ETag"]})
PartRecord(n, tag) == [PartNumber |-> n, ETag |-> tag]

\* part_number += 1
NextPartNumber(n) == n + 1

\* except ClientError as e: ... return False   (the only handler)
MpuCatches(e) == e = "ClientError"

NoObject == [exists |-> FALSE, body |-> <<>>]

\* The body the backend stored for part number n of this upload (a later
\* upload of the same number replaces an earlier one).
StoredBody(stored, n) ==
    LET idx == {i \in 1..Len(stored) : stored[i].PartNumber = n}
    IN  IF idx = {} THEN <<>>
        ELSE stored[CHOOSE i \in idx : \A j \in idx : j <= i].Body

\* Backend: complete_multipart_upload concatenates the bodies of the listed
\* parts, in the order of the list.
RECURSIVE Assemble(_, _)
Assemble(list, stored) ==
    IF list = <<>> THEN <<>>
    ELSE StoredBody(stored, Head(list).PartNumber) \o Assemble(Tail(list), stored)

\* An exception e raised at `site` inside the try block: caught and turned
\* into False, or propagated to the caller.
MpuRaise(site, e) ==
    /\ mpuFault' = Fault(site, e)
    /\ mpuResult' = IF MpuCatches(e) THEN "False" ELSE "raised"
    /\ mpuPc' = "done"

MpuInit ==
    /\ file \in Files
    /\ part_size \in 0..MaxPartSize
    /\ mpuPc = "create"
    /\ fpos = 0
    /\ data = <<>>
    /\ parts = <<>>
    /\ part_number = 0
    /\ uploaded_bytes = 0
    /\ eof = FALSE
    /\ s3Parts = <<>>
    /\ completeCalls = <<>>
    /\ s3Object = NoObject
    /\ mpuCalls = <<>>
    /\ mpuResult = "none"
    /\ mpuFault = NoFault

\* mpu = aws_s3_client.create_multipart_upload(...); parts = []; uploaded_bytes = 0
MpuCreate ==
    /\ UNCHANGED mpuOthers
    /\ mpuPc = "create"
    /\ mpuCalls' = Append(mpuCalls, "create_multipart_upload")
    /\ \/ /\ mpuPc' = "stat"
          /\ UNCHANGED <<mpuResult, mpuFault>>
       \/ \E e \in BackendExc : MpuRaise("create_multipart_upload", e)
    /\ UNCHANGED <<file, part_size, fpos, data, parts, part_number,
                   uploaded_bytes, eof, s3Parts, completeCalls, s3Object>>

\* total_bytes = os.stat(filename).st_size
MpuStat ==
    /\ UNCHANGED mpuOthers
    /\ mpuPc = "stat"
    /\ \/ /\ mpuPc' = "open"
          /\ UNCHANGED <<mpuResult, mpuFault>>
       \/ \E e \in LocalExc : MpuRaise("stat", e)
    /\ UNCHANGED <<file, part_size, fpos, data, parts, part_number,
                   uploaded_bytes, eof, s3Parts, completeCalls, s3Object, mpuCalls>>

\* with open(filename, "rb") as f: part_number = 1
MpuOpen ==
    /\ UNCHANGED mpuOthers
    /\ mpuPc = "open"
    /\ \/ /\ mpuPc' = "read"
          /\ part_number' = 1
          /\ UNCHANGED <<mpuResult, mpuFault>>
       \/ /\ \E e \in LocalExc : MpuRaise("open", e)
          /\ UNCHANGED part_number
    /\ UNCHANGED <<file, part_size, fpos, data, parts,
                   uploaded_bytes, eof, s3Parts, completeCalls, s3Object, mpuCalls>>

\* data = f.read(part_size); if not data: break
MpuRead ==
    /\ UNCHANGED mpuOthers
    /\ mpuPc = "read"
    /\ \/ /\ data' = ReadChunk(file, fpos, part_size)
          /\ fpos' = fpos + Len(data')
          /\ eof' = (data' = <<>>)
          /\ mpuPc' = IF data' = <<>> THEN "complete" ELSE "upload"
          /\ UNCHANGED <<mpuResult, mpuFault>>
       \/ /\ \E e \in LocalExc : MpuRaise("read", e)
          /\ UNCHANGED <<data, fpos, eof>>
    /\ UNCHANGED <<file, part_size, parts, part_number,
                   uploaded_bytes, s3Parts, completeCalls, s3Object, mpuCalls>>

\* part = aws_s3_client.upload_part(Body=data, ..., PartNumber=part_number)
\* parts.append(...); uploaded_bytes += len(data); part_number += 1
MpuUploadPart ==
    /\ UNCHANGED mpuOthers
    /\ mpuPc = "upload"
    /\ mpuCalls' = Append(mpuCalls, "upload_part")
    /\ \/ \E tag \in ETags :
             /\ s3Parts' = Append(s3Parts, [PartNumber |-> part_number,
                                            Body |-> data, ETag |-> tag])
             /\ parts' = Append(parts, PartRecord(part_number, tag))
             /\ uploaded_bytes' = uploaded_bytes + Len(data)
             /\ part_number' = NextPartNumber(part_number)
             /\ mpuPc' = "read"
             /\ UNCHANGED <<mpuResult, mpuFault>>
       \/ /\ \E e \in BackendExc : MpuRaise("upload_part", e)
          /\ UNCHANGED <<s3Parts, parts, uploaded_bytes, part_number>>
    /\ UNCHANGED <<file, part_size, fpos, data, eof, completeCalls, s3Object>>

\* result = aws_s3_client.complete_multipart_upload(..., {"Parts": parts})
\* return result
MpuComplete ==
    /\ UNCHANGED mpuOthers
    /\ mpuPc = "complete"
    /\ mpuCalls' = Append(mpuCalls, "complete_multipart_upload")
    /\ completeCalls' = Append(completeCalls, parts)
    /\ \/ /\ s3Object' = [exists |-> TRUE, body |-> Assemble(parts, s3Parts)]
          /\ mpuResult' = "result"
          /\ mpuPc' = "done"
          /\ UNCHANGED mpuFault
       \/ /\ \E e \in BackendExc : MpuRaise("complete_multipart_upload", e)
          /\ UNCHANGED s3Object
    /\ UNCHANGED <<file, part_size, fpos, data, parts, part_number,
                   uploaded_bytes, eof, s3Parts>>

(***************************************************************************)
(* Strings.  A key is a sequence of one-character strings, so that the     *)
(* code's split / endswith / lower can be computed.                        *)
(***************************************************************************)
Alphabet == {"a", "B", ".", "/"}
Keys == UNION {[1..n -> Alphabet] : n \in 1..MaxKeyLen}

\* str.lower(), one character
LowerChar(c) == CASE c = "A" -> "a" [] c = "B" -> "b" [] OTHER -> c

\* str.lower()
LowerStr(s) == [i \in 1..Len(s) |-> LowerChar(s[i])]

\* The code point of a character (the backend lists keys in byte order).
CharCode(c) ==
    CASE c = "." -> 46 [] c = "/" -> 47 [] c = "A" -> 65 [] c = "B" -> 66
      [] c = "_" -> 95 [] c = "a" -> 97 [] c = "b" -> 98 [] c = "e" -> 101
      [] c = "i" -> 105 [] c = "n" -> 110 [] c = "o" -> 111 [] c = "s" -> 115
      [] c = "t" -> 116 [] c = "x" -> 120

RECURSIVE LexLess(_, _)
\* s sorts strictly before t
LexLess(s, t) ==
    IF t = <<>> THEN FALSE
    ELSE IF s = <<>> THEN TRUE
    ELSE IF Head(s) = Head(t) THEN LexLess(Tail(s), Tail(t))
    ELSE CharCode(Head(s)) < CharCode(Head(t))

RECURSIVE SortKeys(_)
\* The keys of S in ascending order
SortKeys(S) ==
    IF S = {} THEN <<>>
    ELSE LET m == CHOOSE x \in S : \A y \in S \ {x} : LexLess(x, y)
         IN  <<m>> \o SortKeys(S \ {m})

\* s.endswith(c)
EndsWith(s, c) == s # <<>> /\ s[Len(s)] = c

\* c in s
Contains(s, c) == \E i \in 1..Len(s) : s[i] = c

\* s.startswith(p)
StartsWith(s, p) == Len(p) <= Len(s) /\ SubSeq(s, 1, Len(p)) = p

\* s.split(c)[-1]: the text after the last c, all of s when it holds no c
SplitLast(s, c) ==
    LET idx == {i \in 1..Len(s) : s[i] = c}
    IN  IF idx = {} THEN s
        ELSE SubSeq(s, (CHOOSE i \in idx : \A j \in idx : j <= i) + 1, Len(s))

(***************************************************************************)
(* organize_by_extension (aws_s3.py 386-423)                               *)
(***************************************************************************)
NoExtension == <<"n", "o", "_", "e", "x", "t", "e", "n", "s", "i", "o", "n">>

\* extension = key.split(".")[-1].lower() if "." in key else "no_extension"
Extension(key) ==
    IF Contains(key, ".") THEN LowerStr(SplitLast(key, ".")) ELSE NoExtension

\* filename = key.split("/")[-1]
Filename(key) == SplitLast(key, "/")

\* new_key = f"{extension}/{filename}"
NewKey(key) == Extension(key) \o <<"/">> \o Filename(key)

\* The move with its two calls swapped.
MoveStepsDeleteFirst == <<"delete_object", "copy_object">>

\* The calls that move one object, in the order the loop body issues them.
MoveSteps == <<"copy_object", "delete_object">>

\* counts[extension] = counts.get(extension, 0) + 1
CountOne(c, ext) ==
    IF ext \in DOMAIN c THEN [c EXCEPT ![ext] = @ + 1]
    ELSE [e \in DOMAIN c \cup {ext} |-> IF e = ext THEN 1 ELSE c[e]]

NoCounts == [e \in {} |-> 0]
NotReported == [printed |-> FALSE, counts |-> NoCounts]

\* Backend: list_objects_v2(Bucket, Prefix): the keys under the prefix, in
\* ascending key order.
ListObjects(b, p) == SortKeys({k \in DOMAIN b : StartsWith(k, p)})

\* Backend: copy_object stores the source's body under the destination key.
CopyObject(b, src, dst) ==
    [k \in DOMAIN b \cup {dst} |-> IF k = dst THEN b[src] ELSE b[k]]

\* Backend: delete_object removes the key (deleting a missing key succeeds).
DeleteObject(b, k) == [x \in DOMAIN b \ {k} |-> b[x]]

\* except ClientError as e: logging.error(...)   (the only handler)
OrgCatches(e) == e = "ClientError"

OrgRaise(site, e) ==
    /\ orgFault' = Fault(site, e)
    /\ orgResult' = IF OrgCatches(e) THEN "None" ELSE "raised"
    /\ orgPc' = "done"

\* The buckets the runs start from: up to two objects, each holding a body
\* of its own (named after the key it was first stored under).
OrgInit ==
    /\ \E S \in {{}} \cup {{k1, k2} : k1 \in Keys, k2 \in Keys} :
          bucket = [k \in S |-> k]
    /\ prefix \in {<<>>, <<"a">>}
    /\ orgPc = "list"
    /\ Contents = <<>>
    /\ orgIdx = 1
    /\ orgStep = 1
    /\ counts = NoCounts
    /\ srcBody = <<>>
    /\ orgCopied = {}
    /\ orgDeleteCalls = {}
    /\ orgMoves = {}
    /\ reported = NotReported
    /\ orgRun = 1
    /\ snapBucket = bucket
    /\ snapReported = NotReported
    /\ orgResult = "none"
    /\ orgFault = NoFault

\* response = list_objects_v2(...); if 'Contents' not in response: return
\* counts = {}
OrgList ==
    /\ UNCHANGED orgOthers
    /\ orgPc = "list"
    /\ \/ /\ Contents' = ListObjects(bucket, prefix)
          /\ IF Contents' = <<>>
             THEN orgPc' = "done" /\ orgResult' = "None"
             ELSE orgPc' = "loop" /\ UNCHANGED orgResult
          /\ UNCHANGED orgFault
       \/ /\ \E e \in BackendExc : OrgRaise("list_objects_v2", e)
          /\ UNCHANGED Contents
    /\ UNCHANGED <<bucket, prefix, orgIdx, orgStep, counts, srcBody, orgCopied,
                   orgDeleteCalls, orgMoves, reported, orgRun, snapBucket,
                   snapReported>>

\* if key.endswith("/"): continue
OrgSkip ==
    /\ UNCHANGED orgOthers
    /\ orgPc = "loop"
    /\ orgIdx <= Len(Contents)
    /\ EndsWith(Contents[orgIdx], "/")
    /\ orgIdx' = orgIdx + 1
    /\ UNCHANGED <<bucket, prefix, orgPc, Contents, orgStep, counts, srcBody,
                   orgCopied, orgDeleteCalls, orgMoves, reported, orgRun,
                   snapBucket, snapReported, orgResult, orgFault>>

\* extension = ...; counts[extension] = ...; filename = ...; new_key = ...
OrgPrepare ==
    /\ UNCHANGED orgOthers
    /\ orgPc = "loop"
    /\ orgIdx <= Len(Contents)
    /\ ~ EndsWith(Contents[orgIdx], "/")
    /\ counts' = CountOne(counts, Extension(Contents[orgIdx]))
    /\ srcBody' = IF Contents[orgIdx] \in DOMAIN bucket
                  THEN bucket[Contents[orgIdx]] ELSE <<>>
    /\ orgStep' = 1
    /\ orgPc' = "move"
    /\ UNCHANGED <<bucket, prefix, Contents, orgIdx, orgCopied, orgDeleteCalls,
                   orgMoves, reported, orgRun, snapBucket, snapReported,
                   orgResult, orgFault>>

\* After a call of the move returned: the next call, or the next obj.
OrgAdvance ==
    IF orgStep < Len(MoveSteps)
    THEN orgStep' = orgStep + 1 /\ UNCHANGED <<orgPc, orgIdx>>
    ELSE orgStep' = 1 /\ orgPc' = "loop" /\ orgIdx' = orgIdx + 1

\* aws_s3_client.copy_object(Bucket, CopySource={Bucket, Key: key}, Key=new_key)
\* The backend rejects a copy whose source key does not exist.
OrgCopy ==
    /\ UNCHANGED orgOthers
    /\ orgPc = "move"
    /\ MoveSteps[orgStep] = "copy_object"
    /\ LET key == Contents[orgIdx]
       IN  \/ /\ key \in DOMAIN bucket
              /\ bucket' = CopyObject(bucket, key, NewKey(key))
              /\ orgCopied' = orgCopied \cup {key}
              /\ orgMoves' = orgMoves \cup {[src |-> key, dst |-> NewKey(key)]}
              /\ OrgAdvance
              /\ UNCHANGED <<orgResult, orgFault>>
           \/ /\ \E e \in (IF key \in DOMAIN bucket THEN BackendExc
                                                   ELSE {"ClientError"}) :
                    OrgRaise("copy_object", e)
              /\ UNCHANGED <<bucket, orgCopied, orgMoves, orgIdx, orgStep>>
    /\ UNCHANGED <<prefix, Contents, counts, srcBody, orgDeleteCalls, reported,
                   orgRun, snapBucket, snapReported>>

\* aws_s3_client.delete_object(Bucket, Key=key); print(f"Moved ...")
OrgDelete ==
    /\ UNCHANGED orgOthers
    /\ orgPc = "move"
    /\ MoveSteps[orgStep] = "delete_object"
    /\ orgDeleteCalls' = orgDeleteCalls \cup {Contents[orgIdx]}
    /\ \/ /\ bucket' = DeleteObject(bucket, Contents[orgIdx])
          /\ OrgAdvance
          /\ UNCHANGED <<orgResult, orgFault>>
       \/ /\ \E e \in BackendExc : OrgRaise("delete_object", e)
          /\ UNCHANGED <<bucket, orgIdx, orgStep>>
    /\ UNCHANGED <<prefix, Contents, counts, srcBody, orgCopied, orgMoves,
                   reported, orgRun, snapBucket, snapReported>>

\* print("\nSummary:") and the counts; the function returns None
OrgSummary ==
    /\ UNCHANGED orgOthers
    /\ orgPc = "loop"
    /\ orgIdx > Len(Contents)
    /\ reported' = [printed |-> TRUE, counts |-> counts]
    /\ orgResult' = "None"
    /\ orgPc' = "done"
    /\ UNCHANGED <<bucket, prefix, Contents, orgIdx, orgStep, counts, srcBody,
                   orgCopied, orgDeleteCalls, orgMoves, snapBucket,
                   snapReported, orgRun, orgFault>>

\* The command is run again, with the same arguments, on the bucket a run
\* without failure left.
OrgRerun ==
    /\ UNCHANGED orgOthers
    /\ orgPc = "done"
    /\ orgFault = NoFault
    /\ orgRun < MaxRuns
    /\ orgRun' = orgRun + 1
    /\ snapBucket' = bucket
    /\ snapReported' = reported
    /\ orgPc' = "list"
    /\ Contents' = <<>>
    /\ orgIdx' = 1
    /\ orgStep' = 1
    /\ counts' = NoCounts
    /\ srcBody' = <<>>
    /\ orgCopied' = {}
    /\ orgDeleteCalls' = {}
    /\ reported' = NotReported
    /\ orgResult' = "none"
    /\ UNCHANGED <<bucket, prefix, orgMoves, orgFault>>

(***************************************************************************)
(* download_file_and_upload_to_s3 (aws_s3.py 125-181)                      *)
(***************************************************************************)
\* Downloaded bytes are told apart by their leading signature, which is all
\* the sniffer reads.
Signatures == {"BM", "JFIF", "PNG", "WEBP", "ftyp", "GIF8", "%PDF", "<html", "MZ", ""}
UrlContents == [sig : Signatures]
NoContent == [sig |-> "none"]

\* The destination names tried: with an allow-listed extension, with
\* another extension, with none.
FileNames == {"x.png", "x.exe", "x"}

\* magic.from_buffer(content, mime=True): the type read off the bytes
Sniff(c) ==
    CASE c.sig = "BM" -> "image/bmp"
      [] c.sig = "JFIF" -> "image/jpeg"
      [] c.sig = "PNG" -> "image/png"
      [] c.sig = "WEBP" -> "image/webp"
      [] c.sig = "ftyp" -> "video/mp4"
      [] c.sig = "GIF8" -> "image/gif"
      [] c.sig = "%PDF" -> "application/pdf"
      [] c.sig = "<html" -> "text/html"
      [] c.sig = "MZ" -> "application/x-dosexec"
      [] c.sig = "" -> "application/x-empty"
      [] OTHER -> "application/octet-stream"

\* An allow-list that lets one more image type through.
allowed_mime_types_gif ==
    {"image/bmp", "image/jpeg", "image/png", "image/webp", "video/mp4",
     "image/gif"}

\* The keys of the allowed_mime_types dict
allowed_mime_types ==
    {"image/bmp", "image/jpeg", "image/png", "image/webp", "video/mp4"}

\* What urlopen / read can raise, all caught by `except Exception`.
DownloadExc == {"URLError"}

DlInit ==
    /\ urlContent \in UrlContents
    /\ file_name \in FileNames
    /\ keep_local \in BOOLEAN
    /\ dlPc = "download"
    /\ content = NoContent
    /\ mime_type = "none"
    /\ dlUploadCalls = 0
    /\ dlStored = {}
    /\ dlLocalCopy = FALSE
    /\ dlResult = "none"
    /\ dlFault = NoFault

\* with urlopen(url) as response: content = response.read()
\* except Exception: return False
DlDownload ==
    /\ UNCHANGED dlOthers
    /\ dlPc = "download"
    /\ \/ /\ content' = urlContent
          /\ dlPc' = "sniff"
          /\ UNCHANGED <<dlResult, dlFault>>
       \/ \E e \in DownloadExc :
             /\ dlFault' = Fault("urlopen", e)
             /\ dlResult' = "False"
             /\ dlPc' = "done"
             /\ UNCHANGED content
    /\ UNCHANGED <<urlContent, file_name, keep_local, mime_type, dlUploadCalls,
                   dlStored, dlLocalCopy>>

\* mime_type = magic.from_buffer(content, mime=True)
\* if mime_type not in allowed_mime_types: return False
DlSniff ==
    /\ UNCHANGED dlOthers
    /\ dlPc = "sniff"
    /\ mime_type' = Sniff(content)
    /\ IF mime_type' \notin allowed_mime_types
       THEN dlResult' = "False" /\ dlPc' = "done"
       ELSE dlPc' = "upload" /\ UNCHANGED dlResult
    /\ UNCHANGED <<urlContent, file_name, keep_local, content, dlUploadCalls,
                   dlStored, dlLocalCopy, dlFault>>

\* aws_s3_client.upload_fileobj(...): except ClientError / except Exception:
\* return False.  Without keep_local the function then returns the URL.
DlUpload ==
    /\ UNCHANGED dlOthers
    /\ dlPc = "upload"
    /\ dlUploadCalls' = dlUploadCalls + 1
    /\ \/ /\ dlStored' = dlStored \cup
                {[Key |-> file_name, Body |-> content, ContentType |-> mime_type]}
          /\ IF keep_local
             THEN dlPc' = "save" /\ UNCHANGED dlResult
             ELSE dlPc' = "done" /\ dlResult' = "url"
          /\ UNCHANGED dlFault
       \/ \E e \in BackendExc :
             /\ dlFault' = Fault("upload_fileobj", e)
             /\ dlResult' = "False"
             /\ dlPc' = "done"
             /\ UNCHANGED dlStored
    /\ UNCHANGED <<urlContent, file_name, keep_local, content, mime_type,
                   dlLocalCopy>>

\* if keep_local: open(file_name, "wb").write(content), a failure only
\* logged; then the function returns the URL.
DlSaveLocal ==
    /\ UNCHANGED dlOthers
    /\ dlPc = "save"
    /\ \/ dlLocalCopy' = TRUE /\ UNCHANGED dlFault
       \/ \E e \in LocalExc :
             dlFault' = Fault("open", e) /\ UNCHANGED dlLocalCopy
    /\ dlResult' = "url"
    /\ dlPc' = "done"
    /\ UNCHANGED <<urlContent, file_name, keep_local, content, mime_type,
                   dlUploadCalls, dlStored>>

(***************************************************************************)
(* Object versions: restore_previous_version (aws_s3.py 361-383) and       *)
(* delete_old_versions (aws_s3.py 454-479)                                 *)
(***************************************************************************)
\* Time is counted in days; LastModified is a day relative to the day of
\* the call.
Now == 0
DaysPerMonth == 30
Days == {-200, -181, -180, -179, -10}

\* The object_key argument, and another key of the bucket that has it as a
\* prefix.
ObjectKey == <<"a">>
OtherKey == <<"a", ".", "b">>

\* Version ids.  A version written while versioning was on has an id of its
\* own; an object stored before versioning was turned on keeps the id
\* "null", under every key alike.  An id names a version of a given key.
NullId == <<"null">>
NewId(k, t) == <<"id", k, t>>

\* The body a version of key k written on day t holds.
BodyOf(k, t) == [k |-> k, t |-> t]

\* The versions of key k written on the days T; with nullOldest the oldest
\* one dates from before versioning.
VersionsOf(k, T, nullOldest) ==
    {[Key |-> k,
      VersionId |-> IF nullOldest /\ (\A u \in T : t <= u)
                    THEN NullId ELSE NewId(k, t),
      LastModified |-> t,
      Body |-> BodyOf(k, t)] : t \in T}

Histories(k) ==
    {VersionsOf(k, T, n) :
        T \in {X \in SUBSET Days : Cardinality(X) <= MaxVersions},
        n \in BOOLEAN}

\* v is listed before w: by key, and under one key the newest first.
ListedBefore(v, w) ==
    \/ LexLess(v.Key, w.Key)
    \/ v.Key = w.Key /\ v.LastModified > w.LastModified

RECURSIVE SortVersions(_)
SortVersions(S) ==
    IF S = {} THEN <<>>
    ELSE LET m == CHOOSE x \in S : \A y \in S \ {x} : ListedBefore(x, y)
         IN  <<m>> \o SortVersions(S \ {m})

\* Backend: list_object_versions(Bucket, Prefix): the versions of every key
\* under the prefix.
ListObjectVersions(vs, p) == SortVersions({v \in vs : StartsWith(v.Key, p)})

\* Backend: the versions a (Key, VersionId) pair names.
Named(vs, k, id) == {v \in vs : v.Key = k /\ v.VersionId = id}

\* cutoff_date = datetime.now(timezone.utc) - timedelta(days=months * 30)
Cutoff(m) == Now - m * DaysPerMonth

\* if last_modified < cutoff_date
IsOld(last_modified, cutoff) == last_modified < cutoff

\* previous_version = versions[1]  # second latest
PreviousVersion(vl) == vl[2]

\* restore_previous_version: except ClientError: return False
RvCatches(e) == e = "ClientError"

RvRaise(site, e) ==
    /\ verFault' = Fault(site, e)
    /\ verResult' = IF RvCatches(e) THEN "False" ELSE "raised"
    /\ verPc' = "done"

\* delete_old_versions: except Exception: return []
DovRaise(site, e) ==
    /\ verFault' = Fault(site, e)
    /\ verResult' = "list"
    /\ verReturned' = <<>>
    /\ verPc' = "done"

VerInit ==
    /\ \E h1 \in Histories(ObjectKey), h2 \in Histories(OtherKey) :
          versions = h1 \cup h2
    /\ versions0 = versions
    /\ \/ verOp = "restore" /\ months = 0 /\ verPc = "rv_list"
       \/ verOp = "delete_old" /\ months \in {3, 6} /\ verPc = "dov_list"
    /\ listed = <<>>
    /\ verIdx = 1
    /\ deleted = <<>>
    /\ verContent = BodyOf(<<>>, 0)
    /\ verReads = <<>>
    /\ verWrites = 0
    /\ verDeleteCalls = <<>>
    /\ verResult = "none"
    /\ verReturned = <<>>
    /\ verFault = NoFault

\* response = list_object_versions(Bucket, Prefix=object_key)
\* if len(versions) < 2: return False
RvList ==
    /\ UNCHANGED verOthers
    /\ verPc = "rv_list"
    /\ \/ /\ listed' = ListObjectVersions(versions, ObjectKey)
          /\ IF Len(listed') < 2
             THEN verResult' = "False" /\ verPc' = "done"
             ELSE verPc' = "rv_get" /\ UNCHANGED verResult
          /\ UNCHANGED verFault
       \/ /\ \E e \in BackendExc : RvRaise("list_object_versions", e)
          /\ UNCHANGED listed
    /\ UNCHANGED <<versions, versions0, verOp, months, verIdx, deleted,
                   verContent, verReads, verWrites, verDeleteCalls, verReturned>>

\* obj = get_object(Bucket, Key=object_key, VersionId=version_id)
\* content = obj["Body"].read()
\* The backend rejects a version id that names no version of the key.
RvGet ==
    /\ UNCHANGED verOthers
    /\ verPc = "rv_get"
    /\ LET id == PreviousVersion(listed).VersionId
           hit == Named(versions, ObjectKey, id)
       IN  /\ verReads' = Append(verReads, [Key |-> ObjectKey, VersionId |-> id])
           /\ \/ /\ hit # {}
                 /\ verContent' = (CHOOSE v \in hit : TRUE).Body
                 /\ verPc' = "rv_put"
                 /\ UNCHANGED <<verResult, verFault>>
              \/ /\ \E e \in (IF hit # {} THEN BackendExc ELSE {"ClientError"}) :
                       RvRaise("get_object", e)
                 /\ UNCHANGED verContent
    /\ UNCHANGED <<versions, versions0, verOp, months, listed, verIdx, deleted,
                   verWrites, verDeleteCalls, verReturned>>

\* put_object(Bucket, Key=object_key, Body=content); return True
RvPut ==
    /\ UNCHANGED verOthers
    /\ verPc = "rv_put"
    /\ verWrites' = verWrites + 1
    /\ \/ /\ versions' = versions \cup
                {[Key |-> ObjectKey, VersionId |-> NewId(ObjectKey, Now),
                  LastModified |-> Now, Body |-> verContent]}
          /\ verResult' = "True"
          /\ verPc' = "done"
          /\ UNCHANGED verFault
       \/ /\ \E e \in BackendExc : RvRaise("put_object", e)
          /\ UNCHANGED versions
    /\ UNCHANGED <<versions0, verOp, months, listed, verIdx, deleted,
                   verContent, verReads, verDeleteCalls, verReturned>>

\* cutoff_date = ...; versions = list_object_versions(Bucket, Prefix=object_key)
\* deleted = []
DovList ==
    /\ UNCHANGED verOthers
    /\ verPc = "dov_list"
    /\ \/ /\ listed' = ListObjectVersions(versions, ObjectKey)
          /\ verPc' = "dov_loop"
          /\ UNCHANGED <<verResult, verReturned, verFault>>
       \/ /\ \E e \in BackendExc : DovRaise("list_object_versions", e)
          /\ UNCHANGED listed
    /\ UNCHANGED <<versions, versions0, verOp, months, verIdx, deleted,
                   verContent, verReads, verWrites, verDeleteCalls>>

\* for version in versions["Versions"]: a version not older than the cutoff
DovSkip ==
    /\ UNCHANGED verOthers
    /\ verPc = "dov_loop"
    /\ verIdx <= Len(listed)
    /\ ~ IsOld(listed[verIdx].LastModified, Cutoff(months))
    /\ verIdx' = verIdx + 1
    /\ UNCHANGED <<versions, versions0, verOp, months, verPc, listed, deleted,
                   verContent, verReads, verWrites, verDeleteCalls, verResult,
                   verReturned, verFault>>

\* delete_object(Bucket, Key=object_key, VersionId=version["VersionId"])
\* deleted.append((version["VersionId"], last_modified))
\* The backend removes the version the pair names, if there is one.
DovDelete ==
    /\ UNCHANGED verOthers
    /\ verPc = "dov_loop"
    /\ verIdx <= Len(listed)
    /\ IsOld(listed[verIdx].LastModified, Cutoff(months))
    /\ LET id == listed[verIdx].VersionId
       IN  /\ verDeleteCalls' =
                 Append(verDeleteCalls, [Key |-> ObjectKey, VersionId |-> id])
           /\ \/ /\ versions' = versions \ Named(versions, ObjectKey, id)
                 /\ deleted' = Append(deleted, <<id, listed[verIdx].LastModified>>)
                 /\ verIdx' = verIdx + 1
                 /\ UNCHANGED <<verPc, verResult, verReturned, verFault>>
              \/ /\ \E e \in BackendExc : DovRaise("delete_object", e)
                 /\ UNCHANGED <<versions, deleted, verIdx>>
    /\ UNCHANGED <<versions0, verOp, months, listed, verContent, verReads,
                   verWrites>>

\* return deleted
DovReturn ==
    /\ UNCHANGED verOthers
    /\ verPc = "dov_loop"
    /\ verIdx > Len(listed)
    /\ verResult' = "list"
    /\ verReturned' = deleted
    /\ verPc' = "done"
    /\ UNCHANGED <<versions, versions0, verOp, months, listed, verIdx, deleted,
                   verContent, verReads, verWrites, verDeleteCalls, verFault>>

(***************************************************************************)
(* init_client (aws_s3.py 12-28) and the commands (main.py 7-319)          *)
(***************************************************************************)
\* Each command and the storage operation it invokes on the client.
CmdOp ==
    [test_client              |-> "none",
     list_s3buckets           |-> "list_buckets",
     create_s3bucket          |-> "create_bucket",
     delete_s3bucket          |-> "delete_bucket",
     bucket_exists            |-> "bucket_exists",
     create_bucket_policy     |-> "create_bucket_policy",
     read_bucket_policy       |-> "read_bucket_policy",
     set_object_access_policy |-> "set_object_access_policy",
     download_and_upload      |-> "download_file_and_upload_to_s3",
     upload_file              |-> "upload_file",
     upload_file_obj          |-> "upload_file_obj",
     upload_file_put          |-> "upload_file_put",
     multipart_upload         |-> "multipart_upload",
     put_lifecycle_policy     |-> "put_lifecycle_policy",
     delete_object            |-> "delete_object",
     enable_versioning        |-> "enable_versioning",
     check_versioning         |-> "check_bucket_versioning",
     list_versions            |-> "list_object_versions",
     restore_previous_version |-> "restore_previous_version",
     organize_files           |-> "organize_by_extension",
     smart_upload             |-> "smart_upload_file_with_mimetype"]

Commands == DOMAIN CmdOp

\* Commands of the form `if client: ... else: typer.echo("Failed to
\* initialize ...")`.
ElseEchoes ==
    {"test_client", "list_s3buckets", "create_s3bucket", "delete_s3bucket",
     "bucket_exists", "create_bucket_policy", "read_bucket_policy",
     "set_object_access_policy", "download_and_upload", "multipart_upload",
     "put_lifecycle_policy", "delete_object"}

\* Commands of the form `if not client: typer.echo(...); raise typer.Exit(1)`.
ExitsOnAbsent == {"smart_upload"}

\* The other commands are `if client: ...` with no else branch.

\* How an operation can end for its caller: a truthy value, a falsy value
\* (False, None, an empty list), or an exception it lets through.
OpOutcomes(op) ==
    CASE op = "none" -> {"truthy"}
      [] op \in {"list_buckets", "download_file_and_upload_to_s3",
                 "smart_upload_file_with_mimetype"} -> {"truthy", "falsy"}
      [] op = "create_bucket_policy" -> {"falsy", "raise"}
      [] op = "organize_by_extension" -> {"falsy", "raise"}
      [] OTHER -> {"truthy", "falsy", "raise"}

\* The commands that print a line after a truthy result of the operation.
EchoOnTruthy ==
    {"test_client", "list_s3buckets", "create_s3bucket", "delete_s3bucket",
     "bucket_exists", "set_object_access_policy", "download_and_upload",
     "upload_file", "upload_file_obj", "upload_file_put", "multipart_upload",
     "put_lifecycle_policy", "delete_object", "smart_upload"}

\* The commands that print a line after a falsy result of the operation
\* (create_bucket_policy prints its success line: the operation returns
\* None when it succeeds).
EchoOnFalsy ==
    {"list_s3buckets", "create_s3bucket", "delete_s3bucket", "bucket_exists",
     "create_bucket_policy", "read_bucket_policy", "set_object_access_policy",
     "download_and_upload", "upload_file", "upload_file_obj",
     "upload_file_put", "multipart_upload", "put_lifecycle_policy",
     "delete_object", "smart_upload"}

\* The commands that wrap the operation in try / except Exception.
CatchesOpException == {"create_bucket_policy"}

\* The statements of init_client's try block that can raise.
InitSites == {"load_dotenv", "boto3.client", "list_buckets"}

\* A handler list that stops at `except ClientError`.
InitCatchesClientErrorOnly(e) == e = "ClientError"

\* except ClientError as e: ... / except Exception as e: ...
InitCatches(e) == e = "ClientError" \/ e \in {"OtherError", "OSError"}

\* if client:
ClientPresent(c) == c # "None"

CliInit ==
    /\ cmd \in Commands
    /\ cliPc = "init"
    /\ client = "unset"
    /\ initFault = NoFault
    /\ cliOps = <<>>
    /\ cliEcho = <<>>
    /\ cliExit = "none"

\* client = s3.init_client(env_path): the handle, or None after a logged
\* exception (the function falls off its end).
CliInitClient ==
    /\ UNCHANGED cliOthers
    /\ cliPc = "init"
    /\ \/ /\ client' = "handle"
          /\ cliPc' = "body"
          /\ UNCHANGED <<initFault, cliExit>>
       \/ \E site \in InitSites, e \in BackendExc :
             /\ initFault' = Fault(site, e)
             /\ IF InitCatches(e)
                THEN client' = "None" /\ cliPc' = "body" /\ UNCHANGED cliExit
                ELSE cliExit' = "raised" /\ cliPc' = "done" /\ UNCHANGED client
    /\ UNCHANGED <<cmd, cliOps, cliEcho>>

\* The command's branch for an absent client.
CliAbsent ==
    /\ UNCHANGED cliOthers
    /\ cliPc = "body"
    /\ ~ ClientPresent(client)
    /\ cliEcho' = IF cmd \in ElseEchoes \cup ExitsOnAbsent
                  THEN Append(cliEcho, "init_failed") ELSE cliEcho
    /\ cliExit' = IF cmd \in ExitsOnAbsent THEN "exit" ELSE "returned"
    /\ cliPc' = "done"
    /\ UNCHANGED <<cmd, client, initFault, cliOps>>

\* The command's branch for a client: the operation is invoked on it and
\* the command prints according to what it returned.
CliInvoke ==
    /\ UNCHANGED cliOthers
    /\ cliPc = "body"
    /\ ClientPresent(client)
    /\ cliOps' = IF CmdOp[cmd] = "none" THEN cliOps
                 ELSE Append(cliOps, [op |-> CmdOp[cmd], on |-> client])
    /\ \E out \in OpOutcomes(CmdOp[cmd]) :
          \/ /\ out = "truthy"
             /\ cliEcho' = IF cmd \in EchoOnTruthy
                           THEN Append(cliEcho, "success") ELSE cliEcho
             /\ cliExit' = "returned"
          \/ /\ out = "falsy"
             /\ cliEcho' = IF cmd \in EchoOnFalsy
                           THEN Append(cliEcho, IF cmd = "create_bucket_policy"
                                                THEN "success" ELSE "failure")
                           ELSE cliEcho
             /\ cliExit' = "returned"
          \/ /\ out = "raise"
             /\ IF cmd \in CatchesOpException
                THEN cliEcho' = Append(cliEcho, "failure") /\ cliExit' = "returned"
                ELSE cliExit' = "raised" /\ UNCHANGED cliEcho
    /\ cliPc' = "done"
    /\ UNCHANGED <<cmd, client, initFault>>

(***************************************************************************)
(* Bucket and object operations called one after another on one bucket:    *)
(* create_bucket, delete_bucket, bucket_exists, create_bucket_policy       *)
(* (aws_s3.py 44-81), upload_file, upload_file_obj, upload_file_put        *)
(* (184-217), delete_object, enable_versioning, list_object_versions       *)
(* (301-358)                                                               *)
(***************************************************************************)
OpsKeys == {ObjectKey, OtherKey}

\* The local paths a caller may name; only the first is an existing file.
Paths == {"local.txt", "missing.txt"}

Uploads == {"upload_file", "upload_file_obj", "upload_file_put"}

NoBucket == [exists |-> FALSE, versioned |-> FALSE, public |-> FALSE]

\* A bucket as create_bucket leaves it: not versioned, no policy, empty.
FreshBucket == [exists |-> TRUE, versioned |-> FALSE, public |-> FALSE]

NoVersions == [k \in OpsKeys |-> <<>>]

\* What the backend does with a request besides what the bucket's state
\* dictates: it serves it ("none"), rejects it (ClientError), or the SDK
\* fails before an answer (OtherError).
Injected == {"none"} \cup BackendExc

\* The requests the backend rejects because of the bucket's state: creating
\* a bucket that exists, deleting one that is absent or not empty, anything
\* else on an absent bucket.
Rejected(op, b, objs) ==
    CASE op = "create_bucket" -> b.exists
      [] op = "delete_bucket" ->
            ~ b.exists \/ \E k \in OpsKeys : objs[k] # <<>>
      [] OTHER -> ~ b.exists

\* The exception the SDK call raises, "none" when the request is served.
BackendExcOf(op, inj, b, objs) ==
    IF inj # "none" THEN inj
    ELSE IF Rejected(op, b, objs) THEN "ClientError"
    ELSE "none"

IsNotNull(v) == v.VersionId # NullId

IsObject(v) == ~ v.IsDeleteMarker

VersionRecord(id, body) ==
    [VersionId |-> id, Body |-> body, IsDeleteMarker |-> FALSE]

DeleteMarker(id) == [VersionId |-> id, Body |-> "", IsDeleteMarker |-> TRUE]

\* The id the backend gives the next version of a key in a versioned bucket
FreshId(vs) == <<"id", Len(vs) + 1>>

\* A write of body under a key whose versions are vs: a new version in a
\* versioned bucket, else the replacement of the "null" version.
PutVersion(vs, body, versioned) ==
    IF versioned THEN <<VersionRecord(FreshId(vs), body)>> \o vs
    ELSE <<VersionRecord(NullId, body)>> \o SelectSeq(vs, IsNotNull)

\* A delete that leaves a delete marker whatever the bucket's versioning.
RemoveCurrentMarksOnly(vs, versioned) == <<DeleteMarker(FreshId(vs))>> \o vs

\* delete_object(Bucket, Key) without a version id: a delete marker in a
\* versioned bucket, else the removal of the "null" version.
RemoveCurrent(vs, versioned) ==
    IF versioned THEN <<DeleteMarker(FreshId(vs))>> \o vs
    ELSE SelectSeq(vs, IsNotNull)

RECURSIVE VersionsIn(_, _)
\* The "Versions" of a list_object_versions response for the keys ks: the
\* versions that are not delete markers, key by key, newest first.
VersionsIn(ks, objs) ==
    IF ks = <<>> THEN <<>>
    ELSE LET k == Head(ks)
             vs == SelectSeq(objs[k], IsObject)
         IN  [i \in 1..Len(vs) |->
                 [Key |-> k, VersionId |-> vs[i].VersionId,
                  IsLatest |-> (vs[i] = objs[k][1])]]
             \o VersionsIn(Tail(ks), objs)

\* list_object_versions(Bucket=bucket_name, Prefix=object_key)
VersionsResponse(objs, p) ==
    VersionsIn(SortKeys({k \in OpsKeys : StartsWith(k, p)}), objs)

\* The handlers: `except ClientError` in every operation but
\* create_bucket_policy, which has no try at all.
OpCatches(op, e) == op # "create_bucket_policy" /\ e = "ClientError"

\* What the handler returns: [] in list_object_versions, False elsewhere.
FailureValue(op) == IF op = "list_object_versions" THEN "list" ELSE "False"

\* How the operation ends for its caller: its value, its handler's value,
\* or "raised" when the exception leaves the function.
Outcome(op, exc, value) ==
    IF exc = "none" THEN value
    ELSE IF OpCatches(op, exc) THEN FailureValue(op)
    ELSE "raised"

\* The exceptions a rejection can surface as in each upload: the managed
\* transfer behind client.upload_file re-raises a ClientError of the
\* transfer as S3UploadFailedError, which is not a ClientError; the build
\* decides.  upload_fileobj and put_object raise the ClientError itself.
Surfaced(strategy, e) ==
    IF strategy = "upload_file" /\ e = "ClientError"
    THEN {"ClientError", "S3UploadFailedError"}
    ELSE {e}

\* The exceptions an upload can meet: the local file is opened before any
\* request is sent, so a missing file is an OSError (FileNotFoundError) in
\* all three.
UploadExc(strategy, path, files, backendExc) ==
    IF path \notin DOMAIN files THEN {"OSError"}
    ELSE Surfaced(strategy, backendExc)

\* The ways an upload can end: what it returns and whether the bytes were
\* stored.
UploadOutcomes(strategy, path, inj, b, objs, files) ==
    {[result |-> Outcome(strategy, exc, "True"), written |-> exc = "none"] :
        exc \in UploadExc(strategy, path, files,
                          BackendExcOf(strategy, inj, b, objs))}

Call(op, path, key, inj, exc, result, listing, written) ==
    [op |-> op, path |-> path, key |-> key, inj |-> inj, exc |-> exc,
     result |-> result, listing |-> listing, written |-> written]

NoCall == Call("none", "", <<>>, "none", "none", "none", <<>>, FALSE)

\* create_bucket, bucket_exists, upload_file, list_versions, delete_object
\* and a listing again.
ScenarioOps ==
    <<"create_bucket", "bucket_exists", "upload_file",
      "list_object_versions", "delete_object", "list_object_versions">>

\* The call c is step n + 1 of the scenario: the operation of that step,
\* on the scenario's file and key, served by the backend; the first step
\* is a create_bucket that returned True.
FollowsScenario(n, c) ==
    /\ n < Len(ScenarioOps)
    /\ c.op = ScenarioOps[n + 1]
    /\ c.inj = "none"
    /\ c.op = "upload_file" => c.path = "local.txt"
    /\ c.op \in {"upload_file", "list_object_versions", "delete_object"} =>
          c.key = ObjectKey
    /\ n = 0 => c.result = "True"

ScenarioStep(n, c) ==
    IF FollowsScenario(n, c) THEN n + 1
    ELSE IF FollowsScenario(0, c) THEN 1
    ELSE 0

\* The operation returns to its caller (or raises).
OpsReturn(c) ==
    /\ lastCall' = c
    /\ opsCount' = opsCount + 1
    /\ scenario' = ScenarioStep(scenario, c)
    /\ UNCHANGED localFiles

OpsInit ==
    /\ s3Bucket \in {NoBucket, FreshBucket}
    /\ s3Objects = NoVersions
    /\ localFiles = [p \in {"local.txt"} |-> "bytes"]
    /\ opsCount = 0
    /\ lastCall = NoCall
    /\ scenario = 0

create_bucket ==
    /\ UNCHANGED opsOthers
    /\ opsCount < MaxCalls
    /\ \E inj \in Injected :
          LET exc == BackendExcOf("create_bucket", inj, s3Bucket, s3Objects)
          IN  /\ s3Bucket' = IF exc = "none" THEN FreshBucket ELSE s3Bucket
              /\ UNCHANGED s3Objects
              /\ OpsReturn(Call("create_bucket", "", <<>>, inj, exc,
                                Outcome("create_bucket", exc, "True"),
                                <<>>, FALSE))

delete_bucket ==
    /\ UNCHANGED opsOthers
    /\ opsCount < MaxCalls
    /\ \E inj \in Injected :
          LET exc == BackendExcOf("delete_bucket", inj, s3Bucket, s3Objects)
          IN  /\ s3Bucket' = IF exc = "none" THEN NoBucket ELSE s3Bucket
              /\ UNCHANGED s3Objects
              /\ OpsReturn(Call("delete_bucket", "", <<>>, inj, exc,
                                Outcome("delete_bucket", exc, "True"),
                                <<>>, FALSE))

\* head_bucket answers 200 for a bucket that exists and raises a
\* ClientError (404) for one that does not.
bucket_exists ==
    /\ UNCHANGED opsOthers
    /\ opsCount < MaxCalls
    /\ \E inj \in Injected :
          LET exc == BackendExcOf("bucket_exists", inj, s3Bucket, s3Objects)
          IN  /\ UNCHANGED <<s3Bucket, s3Objects>>
              /\ OpsReturn(Call("bucket_exists", "", <<>>, inj, exc,
                                Outcome("bucket_exists", exc, "True"),
                                <<>>, FALSE))

\* delete_public_access_block, then put_bucket_policy; the function
\* returns None.
create_bucket_policy ==
    /\ UNCHANGED opsOthers
    /\ opsCount < MaxCalls
    /\ \E inj \in Injected :
          LET exc == BackendExcOf("create_bucket_policy", inj, s3Bucket,
                                  s3Objects)
          IN  /\ s3Bucket' = IF exc = "none"
                             THEN [s3Bucket EXCEPT !.public = TRUE]
                             ELSE s3Bucket
              /\ UNCHANGED s3Objects
              /\ OpsReturn(Call("create_bucket_policy", "", <<>>, inj, exc,
                                Outcome("create_bucket_policy", exc, "None"),
                                <<>>, FALSE))

\* The three uploads: the file's bytes become the key's current version.
Upload(strategy) ==
    /\ opsCount < MaxCalls
    /\ \E path \in Paths, key \in OpsKeys, inj \in Injected :
          \E exc \in UploadExc(strategy, path, localFiles,
                       BackendExcOf(strategy, inj, s3Bucket, s3Objects)) :
             /\ s3Objects' =
                   IF exc = "none"
                   THEN [s3Objects EXCEPT ![key] =
                           PutVersion(@, localFiles[path], s3Bucket.versioned)]
                   ELSE s3Objects
             /\ UNCHANGED s3Bucket
             /\ OpsReturn(Call(strategy, path, key, inj, exc,
                               Outcome(strategy, exc, "True"),
                               <<>>, exc = "none"))

upload_file == UNCHANGED opsOthers /\ Upload("upload_file")

upload_file_obj == UNCHANGED opsOthers /\ Upload("upload_file_obj")

upload_file_put == UNCHANGED opsOthers /\ Upload("upload_file_put")

delete_object ==
    /\ UNCHANGED opsOthers
    /\ opsCount < MaxCalls
    /\ \E key \in OpsKeys, inj \in Injected :
          LET exc == BackendExcOf("delete_object", inj, s3Bucket, s3Objects)
          IN  /\ s3Objects' =
                    IF exc = "none"
                    THEN [s3Objects EXCEPT ![key] =
                            RemoveCurrent(@, s3Bucket.versioned)]
                    ELSE s3Objects
              /\ UNCHANGED s3Bucket
              /\ OpsReturn(Call("delete_object", "", key, inj, exc,
                                Outcome("delete_object", exc, "True"),
                                <<>>, FALSE))

enable_versioning ==
    /\ UNCHANGED opsOthers
    /\ opsCount < MaxCalls
    /\ \E inj \in Injected :
          LET exc == BackendExcOf("enable_versioning", inj, s3Bucket,
                                  s3Objects)
          IN  /\ s3Bucket' = IF exc = "none"
                             THEN [s3Bucket EXCEPT !.versioned = TRUE]
                             ELSE s3Bucket
              /\ UNCHANGED s3Objects
              /\ OpsReturn(Call("enable_versioning", "", <<>>, inj, exc,
                                Outcome("enable_versioning", exc, "True"),
                                <<>>, FALSE))

\* The "Versions" of the response, [] when there are none or the request
\* was rejected.
list_object_versions ==
    /\ UNCHANGED opsOthers
    /\ opsCount < MaxCalls
    /\ \E key \in OpsKeys, inj \in Injected :
          LET exc == BackendExcOf("list_object_versions", inj, s3Bucket,
                                  s3Objects)
          IN  /\ UNCHANGED <<s3Bucket, s3Objects>>
              /\ OpsReturn(Call("list_object_versions", "", key, inj, exc,
                                Outcome("list_object_versions", exc, "list"),
                                IF exc = "none"
                                THEN VersionsResponse(s3Objects, key)
                                ELSE <<>>,
                                FALSE))

(***************************************************************************)
(* Specifications: one per operation; the other operations stay idle.      *)
(***************************************************************************)
MpuIdle ==
    /\ file = <<>>
    /\ part_size = 0
    /\ mpuPc = "idle"
    /\ fpos = 0
    /\ data = <<>>
    /\ parts = <<>>
    /\ part_number = 0
    /\ uploaded_bytes = 0
    /\ eof = FALSE
    /\ s3Parts = <<>>
    /\ completeCalls = <<>>
    /\ s3Object = NoObject
    /\ mpuCalls = <<>>
    /\ mpuResult = "none"
    /\ mpuFault = NoFault

OrgIdle ==
    /\ bucket = NoCounts
    /\ prefix = <<>>
    /\ orgPc = "idle"
    /\ Contents = <<>>
    /\ orgIdx = 1
    /\ orgStep = 1
    /\ counts = NoCounts
    /\ srcBody = <<>>
    /\ orgCopied = {}
    /\ orgDeleteCalls = {}
    /\ orgMoves = {}
    /\ reported = NotReported
    /\ orgRun = 1
    /\ snapBucket = NoCounts
    /\ snapReported = NotReported
    /\ orgResult = "none"
    /\ orgFault = NoFault

DlIdle ==
    /\ urlContent = NoContent
    /\ file_name = ""
    /\ keep_local = FALSE
    /\ dlPc = "idle"
    /\ content = NoContent
    /\ mime_type = "none"
    /\ dlUploadCalls = 0
    /\ dlStored = {}
    /\ dlLocalCopy = FALSE
    /\ dlResult = "none"
    /\ dlFault = NoFault

VerIdle ==
    /\ versions = {}
    /\ versions0 = {}
    /\ verOp = "none"
    /\ months = 0
    /\ verPc = "idle"
    /\ listed = <<>>
    /\ verIdx = 1
    /\ deleted = <<>>
    /\ verContent = BodyOf(<<>>, 0)
    /\ verReads = <<>>
    /\ verWrites = 0
    /\ verDeleteCalls = <<>>
    /\ verResult = "none"
    /\ verReturned = <<>>
    /\ verFault = NoFault

CliIdle ==
    /\ cmd = "none"
    /\ cliPc = "idle"
    /\ client = "unset"
    /\ initFault = NoFault
    /\ cliOps = <<>>
    /\ cliEcho = <<>>
    /\ cliExit = "none"

OpsIdle ==
    /\ s3Bucket = NoBucket
    /\ s3Objects = NoVersions
    /\ localFiles = << >>
    /\ opsCount = 0
    /\ lastCall = NoCall
    /\ scenario = 0

MpuNext ==
    \/ MpuCreate
    \/ MpuStat
    \/ MpuOpen
    \/ MpuRead
    \/ MpuUploadPart
    \/ MpuComplete

OrgNext ==
    \/ OrgList
    \/ OrgSkip
    \/ OrgPrepare
    \/ OrgCopy
    \/ OrgDelete
    \/ OrgSummary
    \/ OrgRerun

DlNext ==
    \/ DlDownload
    \/ DlSniff
    \/ DlUpload
    \/ DlSaveLocal

VerNext ==
    \/ RvList
    \/ RvGet
    \/ RvPut
    \/ DovList
    \/ DovSkip
    \/ DovDelete
    \/ DovReturn

CliNext ==
    \/ CliInitClient
    \/ CliAbsent
    \/ CliInvoke

OpsNext ==
    \/ create_bucket
    \/ delete_bucket
    \/ bucket_exists
    \/ create_bucket_policy
    \/ upload_file
    \/ upload_file_obj
    \/ upload_file_put
    \/ delete_object
    \/ enable_versioning
    \/ list_object_versions

InitMpu == MpuInit /\ OrgIdle /\ DlIdle /\ VerIdle /\ CliIdle /\ OpsIdle

InitOrg == OrgInit /\ MpuIdle /\ DlIdle /\ VerIdle /\ CliIdle /\ OpsIdle

InitDl == DlInit /\ MpuIdle /\ OrgIdle /\ VerIdle /\ CliIdle /\ OpsIdle

InitVer == VerInit /\ MpuIdle /\ OrgIdle /\ DlIdle /\ CliIdle /\ OpsIdle

InitCli == CliInit /\ MpuIdle /\ OrgIdle /\ DlIdle /\ VerIdle /\ OpsIdle

SpecMpu == InitMpu /\ [][MpuNext]_vars

SpecOrg == InitOrg /\ [][OrgNext]_vars

SpecDl == InitDl /\ [][DlNext]_vars

SpecVer == InitVer /\ [][VerNext]_vars

SpecCli == InitCli /\ [][CliNext]_vars

InitOps ==
    OpsInit /\ MpuIdle /\ OrgIdle /\ DlIdle /\ VerIdle /\ CliIdle

SpecOps == InitOps /\ [][OpsNext]_vars

(***************************************************************************)
(* Claims about multipart_upload                                           *)
(***************************************************************************)
NumCalls(op) == Cardinality({i \in 1..Len(mpuCalls) : mpuCalls[i] = op})

RECURSIVE ConcatBodies(_)
\* The bodies of parts 1..n as the backend holds them, in part-number order.
ConcatBodies(n) ==
    IF n = 0 THEN <<>> ELSE ConcatBodies(n - 1) \o StoredBody(s3Parts, n)

\* C1: a run of multipart_upload in which nothing fails, on a file of size
\* S >= 0 with part size P > 0, issues exactly ceil(S/P) upload_part calls,
\* numbered 1..N in order, and the uploaded bodies concatenated in
\* part-number order are the bytes of the file (and so is the assembled
\* object).
C1_PartsCoverFile ==
    (mpuPc = "done" /\ mpuFault = NoFault /\ part_size > 0) =>
        LET N == CeilDiv(Len(file), part_size)
        IN  /\ NumCalls("upload_part") = N
            /\ Len(s3Parts) = N
            /\ \A i \in 1..N : s3Parts[i].PartNumber = i
            /\ ConcatBodies(N) = file
            /\ s3Object.exists /\ s3Object.body = file

\* A finished run whose last part is shorter than the part size.
C1_Witness ==
    /\ mpuPc = "done" /\ mpuFault = NoFault
    /\ Len(file) = 3 /\ part_size = 2
    /\ Len(s3Parts) = 2 /\ Len(s3Parts[2].Body) = 1

\* C2: at every point of multipart_upload the recorded parts list is the
\* part numbers 1..k in the order the chunks were read, each with the tag
\* the backend returned for that part; complete_multipart_upload is called
\* at most once, only after the read loop saw the end of the file, and with
\* exactly the recorded list.
C2_PartsListInvariant ==
    /\ Len(parts) = Len(s3Parts)
    /\ \A i \in 1..Len(parts) :
          /\ parts[i].PartNumber = i
          /\ s3Parts[i].PartNumber = i
          /\ parts[i].ETag = s3Parts[i].ETag
          /\ s3Parts[i].Body = ReadChunk(file, (i - 1) * part_size, part_size)
    /\ Len(completeCalls) <= 1
    /\ NumCalls("complete_multipart_upload") = Len(completeCalls)
    /\ completeCalls # <<>> => (eof /\ completeCalls[1] = parts)

\* Two parts recorded and the session completed with them.
C2_Witness ==
    /\ Len(parts) = 2
    /\ parts[1].ETag # parts[2].ETag
    /\ completeCalls = <<parts>>

\* C3: a failure in the middle of multipart_upload (a local read error, a
\* rejected upload_part, a rejected complete_multipart_upload) reaches the
\* caller as the failure result False, never as an exception, and the
\* workflow stops there: no step of it, and so no backend call, follows.
C3_FailureReturnsFalse ==
    (mpuFault.at \in {"read", "upload_part", "complete_multipart_upload"}
        /\ mpuFault.exc \in {"OSError", "ClientError"}) =>
        /\ mpuResult = "False"
        /\ mpuPc = "done"
        /\ ~ ENABLED MpuNext

(***************************************************************************)
(* Claims about organize_by_extension                                      *)
(***************************************************************************)
\* The second run met no failure, or met only the backend's refusal to copy
\* a key onto itself (which is how a backend that rejects such a copy
\* answers the second run).
SecondRunUndisturbed ==
    \/ orgFault = NoFault
    \/ /\ orgFault = Fault("copy_object", "ClientError")
       /\ NewKey(Contents[orgIdx]) = Contents[orgIdx]

\* C4: organize_by_extension is idempotent on its own output: a second run
\* over the whole bucket after a complete first run that left objects leaves the keys and the stored bodies as the
\* first run left them and reports the same per-extension counts.
C4_SecondRunChangesNothing ==
    (/\ orgRun = 2 /\ orgPc = "done" /\ prefix = <<>>
     /\ DOMAIN snapBucket # {}
     /\ SecondRunUndisturbed) =>
        /\ bucket = snapBucket
        /\ reported = snapReported

\* C5: a failure at any point of an object's copy-then-delete leaves the
\* body that was under the source key when the move began stored under the
\* source key, the destination key, or both; and delete_object is issued
\* for a key only after copy_object of that key succeeded.
C5_FailureLeavesNoGap ==
    /\ orgFault.at \in {"copy_object", "delete_object"} =>
          LET key == Contents[orgIdx]
          IN  \/ key \in DOMAIN bucket /\ bucket[key] = srcBody
              \/ NewKey(key) \in DOMAIN bucket /\ bucket[NewKey(key)] = srcBody
    /\ orgDeleteCalls \subseteq orgCopied

\* The delete failed after the copy: the body is under both keys.
C5_Witness ==
    /\ orgFault.at = "delete_object"
    /\ LET key == Contents[orgIdx]
       IN  /\ NewKey(key) # key
           /\ key \in DOMAIN bucket /\ bucket[key] = srcBody
           /\ NewKey(key) \in DOMAIN bucket /\ bucket[NewKey(key)] = srcBody

\* The file name of a key: the text after its last delimiter.
Basename(key) == SplitLast(key, "/")

\* The extension of a key as the layout describes it: the lowercase text
\* after the last dot of the file name, or the sentinel when the file name
\* has no dot.
LayoutExtension(key) ==
    IF Contains(Basename(key), ".")
    THEN LowerStr(SplitLast(Basename(key), "."))
    ELSE NoExtension

\* C6: every listed key that is not a folder placeholder is moved to
\* <extension>/<basename>, the extension being that of the file name and
\* never holding a delimiter; placeholders are neither moved nor counted.
C6_MovedToExtensionFolder ==
    /\ \A m \in orgMoves :
          /\ ~ EndsWith(m.src, "/")
          /\ m.dst = LayoutExtension(m.src) \o <<"/">> \o Basename(m.src)
          /\ ~ Contains(LayoutExtension(m.src), "/")
          /\ ~ Contains(Extension(m.src), "/")
    /\ reported.printed =>
          \A e \in DOMAIN reported.counts :
             reported.counts[e] =
                Cardinality({i \in 1..Len(Contents) :
                                /\ ~ EndsWith(Contents[i], "/")
                                /\ LayoutExtension(Contents[i]) = e})

\* The keys the run listed that are not folder placeholders.
ListedObjects ==
    {Contents[i] : i \in 1..Len(Contents)} \ {k \in Keys : EndsWith(k, "/")}

\* C15: a complete run of organize_by_extension without a failure loses no
\* object: every listed object that is not a placeholder has the bytes it
\* had before the run stored under its destination key, and the bucket
\* holds as many objects as before; also when two source keys have the
\* same file name.  Checked on runs where no listed key is itself the
\* destination of a listed key.
C15_NoObjectLost ==
    (/\ orgRun = 1 /\ orgPc = "done" /\ orgFault = NoFault
     /\ reported.printed
     /\ ListedObjects = DOMAIN snapBucket
     /\ \A k \in ListedObjects : NewKey(k) \notin ListedObjects) =>
        /\ \A k \in ListedObjects :
              /\ NewKey(k) \in DOMAIN bucket
              /\ bucket[NewKey(k)] = snapBucket[k]
        /\ Cardinality(DOMAIN bucket) = Cardinality(DOMAIN snapBucket)

(***************************************************************************)
(* Claims about download_file_and_upload_to_s3                             *)
(***************************************************************************)
\* The types the upload is open to.
RelayedTypes ==
    {"image/bmp", "image/jpeg", "image/png", "image/webp", "video/mp4"}

\* C7: when the type sniffed from the downloaded bytes is not one of bmp,
\* jpeg, png, webp, mp4, the function returns False, upload_fileobj is
\* never called and no local copy is written; upload_fileobj is called only
\* after a successful download whose sniffed type is one of the five,
\* whatever the file name.
C7_UnlistedTypeNeverUploaded ==
    /\ (content # NoContent /\ dlPc \notin {"download", "sniff"}
           /\ Sniff(content) \notin RelayedTypes) =>
          /\ dlPc = "done" /\ dlResult = "False"
          /\ dlUploadCalls = 0 /\ dlStored = {}
          /\ ~ dlLocalCopy
    /\ dlUploadCalls > 0 =>
          /\ content = urlContent
          /\ Sniff(content) \in RelayedTypes
    /\ dlUploadCalls <= 1

\* A GIF served under a .png name with keep_local set: refused.
C7_Witness ==
    /\ dlPc = "done" /\ urlContent.sig = "GIF8" /\ content = urlContent
    /\ file_name = "x.png" /\ keep_local
    /\ dlResult = "False" /\ dlUploadCalls = 0

(***************************************************************************)
(* Claims about object versions                                            *)
(***************************************************************************)
\* The versions of the requested object when the operation began, newest
\* first.
ObjectVersions0 == SortVersions({v \in versions0 : v.Key = ObjectKey})

\* C8: delete_old_versions(bucket, key, months) that meets no failure
\* deletes exactly the versions of the object last modified strictly before
\* now - months*30 days: a version at the cutoff or newer stays, every
\* strictly older one goes, and no other version is touched.
C8_DeletesExactlyTheOlderVersions ==
    (verOp = "delete_old" /\ verPc = "done" /\ verFault = NoFault) =>
        versions = {v \in versions0 :
                       ~ (v.Key = ObjectKey /\ v.LastModified < Now - months * 30)}

\* C9: restore_previous_version on an object with versions [v3, v2, v1]
\* writes one new current version holding v2's bytes and deletes nothing;
\* on an object with fewer than two versions it returns False and issues no
\* read of a version and no write.
C9_RestoreIsAdditive ==
    verOp = "restore" =>
        /\ verDeleteCalls = <<>>
        /\ (Len(ObjectVersions0) >= 2 /\ verPc = "done" /\ verFault = NoFault) =>
              /\ verResult = "True"
              /\ \E n \in versions \ versions0 :
                    /\ versions = versions0 \cup {n}
                    /\ n.Key = ObjectKey
                    /\ n.Body = ObjectVersions0[2].Body
                    /\ \A v \in versions0 : n.LastModified > v.LastModified
        /\ Len(ObjectVersions0) < 2 =>
              /\ verReads = <<>>
              /\ verWrites = 0
              /\ (verPc = "done" /\ verFault = NoFault) => verResult = "False"

\* C16: restore_previous_version and delete_old_versions act on versions
\* of exactly the requested key, also when another key has the requested
\* key as a prefix: the version restore chose from the listing is a version
\* of the requested key, and every version id passed to delete_object is
\* the id of a version of the requested key.
C16_OnlyTheRequestedKey ==
    /\ (verOp = "restore" /\ verReads # <<>>) =>
          PreviousVersion(listed).Key = ObjectKey
    /\ verOp = "delete_old" =>
          \A i \in 1..Len(verDeleteCalls) :
             \E v \in versions0 :
                /\ v.Key = ObjectKey
                /\ v.VersionId = verDeleteCalls[i].VersionId

\* The versions the backend removed during the call, as the pairs
\* delete_old_versions reports: (VersionId, LastModified).
ActuallyDeleted ==
    {<<v.VersionId, v.LastModified>> : v \in versions0 \ versions}

\* C17: on every path, the list delete_old_versions returns names exactly
\* the versions the backend deleted during the call, also when a delete
\* failed after earlier deletes succeeded.  Checked on buckets where no
\* other key shares the requested key's prefix.
C17_ReturnedListIsWhatWasDeleted ==
    (/\ verOp = "delete_old" /\ verPc = "done"
     /\ \A v \in versions0 : v.Key = ObjectKey) =>
        {verReturned[i] : i \in 1..Len(verReturned)} = ActuallyDeleted

(***************************************************************************)
(* Claims about the client and the command layer                           *)
(***************************************************************************)
\* C10: init_client never raises: on any failure inside it the command
\* gets an absent client; and a command that got an absent client ends
\* without an exception and without invoking any storage operation.
C10_AbsentClientIsNeverUsed ==
    /\ initFault # NoFault =>
          /\ client = "None"
          /\ cliPc \in {"body", "done"}
    /\ client \in {"unset", "None"} =>
          /\ cliOps = <<>>
          /\ cliExit \in {"none", "returned", "exit"}
    /\ \A i \in 1..Len(cliOps) : cliOps[i].on = "handle"
    /\ (cliPc = "done" /\ client = "None") =>
          cliExit = IF cmd = "smart_upload" THEN "exit" ELSE "returned"

\* A command without an else branch that ended on an absent client, after
\* the connectivity probe raised something other than ClientError.
C10_Witness ==
    /\ cmd = "organize_files"
    /\ initFault = Fault("list_buckets", "OtherError")
    /\ client = "None" /\ cliPc = "done"
    /\ cliOps = <<>> /\ cliExit = "returned"

\* The operations that print a line of their own on some path
\* (read_bucket_policy, enable_versioning, check_bucket_versioning,
\* list_object_versions, restore_previous_version, organize_by_extension).
PrintsItself ==
    {"read_bucket_policy", "enable_versioning", "check_bucket_versioning",
     "list_object_versions", "restore_previous_version",
     "organize_by_extension"}

\* C14: a command that ended without an unhandled exception has printed a
\* success line or a failure line, whether the client was absent or the
\* operation returned a failure indicator; a line printed by the operation
\* itself is counted in the command's favour.
C14_NoPathEndsSilently ==
    (cliPc = "done" /\ cliExit \in {"returned", "exit"}) =>
       \/ cliEcho # <<>>
       \/ client = "handle" /\ CmdOp[cmd] \in PrintsItself

(***************************************************************************)
(* Claims about the bucket and object operations                           *)
(***************************************************************************)
\* C11: no bucket or object operation lets an exception reach its caller:
\* whenever a call failed inside create_bucket, delete_bucket,
\* bucket_exists, create_bucket_policy or one of the three uploads, be it
\* a backend rejection, another SDK failure or a missing local file, the
\* operation returned its failure indicator.
C11_FailuresBecomeIndicators ==
    (/\ lastCall.op \in {"create_bucket", "delete_bucket", "bucket_exists",
                         "create_bucket_policy"} \cup Uploads
     /\ lastCall.exc # "none")
    => lastCall.result = "False"

\* C12: when the last calls were the end-to-end scenario on a backend that
\* served each of them (create_bucket returned True, then bucket_exists,
\* upload_file of the existing local file, list_object_versions of its key,
\* delete_object, list_object_versions again), bucket_exists and
\* upload_file returned True, the first listing has exactly one record and
\* the listing after the delete is empty.
C12_EndToEndScenario ==
    /\ scenario \in {2, 3, 5} => lastCall.result = "True"
    /\ scenario = 4 =>
          /\ lastCall.result = "list"
          /\ Len(lastCall.listing) = 1
          /\ lastCall.listing[1].Key = ObjectKey
    /\ scenario = 6 =>
          /\ lastCall.result = "list"
          /\ lastCall.listing = <<>>

\* The whole scenario has run: the sixth call was the listing after the
\* delete.
C12_Witness ==
    /\ scenario = 6
    /\ opsCount = 6
    /\ lastCall.op = "list_object_versions"
    /\ lastCall.key = ObjectKey
    /\ s3Bucket.exists

\* C13: the three uploads are interchangeable: for the same local path,
\* bucket state and backend behaviour, each of the three can end only the
\* way the upload just called ended, with the same return value and the
\* same bytes stored or not stored.
C13_UploadsAreEquivalent ==
    lastCall.op \in Uploads =>
       \A strategy \in Uploads :
          UploadOutcomes(strategy, lastCall.path, lastCall.inj,
                         s3Bucket, s3Objects, localFiles)
          = {[result |-> lastCall.result, written |-> lastCall.written]}

=============================================================================
